---- MODULE Spec2Model ----
(***************************************************************************)
(* A model of syncronicity: the BigQuery Storage reader                    *)
(* (pkg/bigquery/bigquery.go) and the two command-line drivers of          *)
(* cmd/syncronicity.go that move its records to Snowflake                  *)
(* (pkg/snowflake/snowflake.go).                                           *)
(*                                                                         *)
(* The BigQuery service is the environment: it decides how many streams a  *)
(* session holds, how many rows each stream has, how the rows are cut into *)
(* responses, and where a call fails.  Rows are identified by              *)
(* <<stream, index>>, so that a row delivered twice or never is visible.   *)
(*                                                                         *)
(* Spec also holds a client of the snowflake Client methods                *)
(* (unnamed/part_001).  NormSpec evaluates the stage path normalization of *)
(* UploadParquetToStage and BackoffSpec the backoff of the retry policies, *)
(* each on its own; ConfigSpec runs concurrent callers of package config.  *)
(***************************************************************************)
EXTENDS Integers, Sequences, FiniteSets, TLC

\* ---- bounds of the model -------------------------------------------------
MaxStreams == 2      \* streams a session can hold
MaxRows == 2         \* rows of one stream
MaxBatchRows == 2    \* rows of one response
MaxFaults == 2       \* failures the environment injects in one run
MaxZeros == 1        \* zero-row responses the service sends in one run
MaxCalls == 3        \* calls a client of the snowflake Client makes
MaxLen == 5          \* characters of a stage reference
MaxPauses == 30      \* pauses one retryer makes
MaxGoroutines == 2   \* goroutines that call into package config

\* ---- program constants ---------------------------------------------------
\* MaxStreamCount passed by both versions of main.
MainMaxStreamCount == 1

\* gax.Backoff of both retry policies, durations in microseconds: Initial
\* 100ms, Max 60s, Multiplier 1.30 as a fraction.
BackoffInitial == 100000
BackoffMax == 60000000
MultiplierNum == 13
MultiplierDen == 10

\* gRPC status codes: the two the retry policies name, and one other.
Codes == {"DeadlineExceeded", "Unavailable", "Internal"}

\* The codes the spec calls retryable transport errors.
RetryableTransport == {"DeadlineExceeded", "Unavailable"}

\* The callers: main of the staged-load version ("stage"), main of the
\* streaming-loop version ("loop"), a library client that calls the exported
\* methods of the reader in any order ("api"), and a library client that
\* calls the methods of the snowflake Client in any order ("sf").
Variants == {"stage", "loop", "api", "sf"}

VARIABLES
    variant,        \* which caller drives the reader
    mpc,            \* position of the caller
    rdpc,           \* position inside BigQueryReader.Read
    attempt,        \* retries made by the call in flight
    maxStreamCount, \* opts.MaxStreamCount of the session request
    total,          \* service: rows of each stream of the session
    faults,         \* failures the environment may still inject
    zeros,          \* zero-row responses the service may still send
    hasReader,      \* NewBigQueryReader returned a reader
    streams,        \* r.streams
    stream,         \* r.stream
    offset,         \* r.offset
    ipcReader,      \* r.r
    res,            \* what the last call of Read returned
    deliveredRecs,  \* history: records returned by Read, in order
    servedRecs,     \* history: records encoded in the responses received
    lastFail,       \* history: the last failed attempt of a retried call
    flags,          \* history: events that have happened
    errSeen,        \* stages whose error main has been handed
    outcome,        \* terminal outcome main reported
    files,          \* local files created
    puts,           \* PUT commands issued to the stage
    staged,         \* files present at the stage
    loads,          \* COPY commands executed
    transferred,    \* rows counted by the loop version
    released,       \* history: calls of record.Release() made by main
    ctxDone,        \* the deadline of main's context has passed
    incomplete,     \* local files whose content is not a whole Parquet file
    sfRes,          \* what the last call of a snowflake Client method returned
    px              \* argument and results of the function under evaluation

envVars == <<total, faults, zeros>>
readerVars == <<hasReader, streams, stream, offset, ipcReader>>
readVars == <<rdpc, res, deliveredRecs, servedRecs>>
sinkVars == <<files, puts, staged, loads, transferred>>
auxVars == <<released, ctxDone, incomplete, sfRes, px>>
vars == <<variant, mpc, attempt, maxStreamCount, envVars, readerVars, readVars,
          lastFail, flags, errSeen, outcome, sinkVars, auxVars>>

\* ---- values --------------------------------------------------------------
NoStream == [id |-> 0, pos |-> 0, err |-> "none"]
NoResult == [kind |-> "none", rec |-> <<>>, cause |-> "none", code |-> "none"]
NoFail == [call |-> "none", code |-> "none"]

RecResult(rec) == [kind |-> "rec", rec |-> rec, cause |-> "none", code |-> "none"]
EOFResult == [kind |-> "eof", rec |-> <<>>, cause |-> "none", code |-> "none"]
ErrResult(cause, code) == [kind |-> "err", rec |-> <<>>, cause |-> cause, code |-> code]
PanicResult == [kind |-> "panic", rec |-> <<>>, cause |-> "nil reader", code |-> "none"]

\* An ipc.Reader: nil, or a reader over a buffer with the records still to
\* be returned by Next and its sticky error.
NilReader == [nil |-> TRUE, pending |-> <<>>, err |-> FALSE]
SchemaReader == [nil |-> FALSE, pending |-> <<>>, err |-> FALSE]

Min(a, b) == IF a < b THEN a ELSE b

\* The n rows of stream s that start at row p.
RowsFrom(s, p, n) == [k \in 1..n |-> <<s, p + k - 1>>]

RECURSIVE Flatten(_)
Flatten(recs) == IF recs = <<>> THEN <<>> ELSE Head(recs) \o Flatten(Tail(recs))

NoFlags == [eofReturned |-> FALSE, decodeFailed |-> FALSE, interrupted |-> FALSE,
            closed |-> FALSE, zeroStreams |-> FALSE, zeroServed |-> FALSE,
            multiRec |-> FALSE, nilOpts |-> FALSE, lateCall |-> FALSE,
            readerReleased |-> FALSE, doubleRelease |-> FALSE, closedAgain |-> FALSE,
            closeChanged |-> FALSE, closeErr |-> FALSE, rowsReceived |-> 0,
            stagedRows |-> <<>>, overwrote |-> FALSE, resetWhileLive |-> FALSE,
            clobbered |-> FALSE]

\* No snowflake Client method has been called.
NoCall == [seq |-> 0, op |-> "none", cause |-> "none", file |-> "none",
           stagedBefore |-> {}]

\* No function is under evaluation.
NoPx == [fn |-> "none"]

\* The state in which caller v starts.
Start(v) ==
    /\ variant = v
    /\ mpc = (IF v = "sf" THEN "sf" ELSE "start")
    /\ rdpc = "idle"
    /\ attempt = 0
    /\ maxStreamCount = 0
    /\ total = <<>>
    /\ faults = MaxFaults
    /\ zeros = MaxZeros
    /\ hasReader = FALSE
    /\ streams = <<>>
    /\ stream = NoStream
    /\ offset = 0
    /\ ipcReader = NilReader
    /\ res = NoResult
    /\ deliveredRecs = <<>>
    /\ servedRecs = <<>>
    /\ lastFail = NoFail
    /\ flags = NoFlags
    /\ errSeen = {}
    /\ outcome = "none"
    /\ files = {}
    /\ puts = {}
    /\ staged = {}
    /\ loads = 0
    /\ transferred = 0
    /\ released = 0
    /\ ctxDone = FALSE
    /\ incomplete = {}
    /\ sfRes = NoCall

Init ==
    /\ \E v \in Variants : Start(v)
    /\ px = NoPx

\* ---- retry policy (defaultBigQueryReadCallOptions) -----------------------
\* Codes retried for CreateReadSession.  NewBigQueryReader passes no call
\* options to CreateReadSession, so the storage client's built-in options
\* apply; they name the same two codes.
CreateReadSessionRetryCodes == {"DeadlineExceeded", "Unavailable"}

ReadRowsRetryCodes_Widened == {"DeadlineExceeded", "Unavailable"}

\* Codes retried for ReadRows.
ReadRowsRetryCodes == {"Unavailable"}

\* gax.OnCodes: the retryer says retry exactly for the listed codes.
OnCodes(cc, code) == code \in cc

\* ---- session creation (NewBigQueryReader) --------------------------------
\* NewBigQueryReadClient: the storage client is built, or main logs Fatalf.
NewBigQueryReadClient ==
    /\ mpc = "start"
    /\ \E ok \in BOOLEAN :
          /\ mpc' = IF ok THEN "newReader" ELSE "fatal"
          /\ outcome' = IF ok THEN outcome ELSE "fatal"
          /\ errSeen' = IF ok THEN errSeen ELSE errSeen \cup {"client"}
    /\ UNCHANGED <<variant, attempt, maxStreamCount, envVars, readerVars, readVars,
                   lastFail, flags, sinkVars, auxVars>>

\* The opts a caller may pass to NewBigQueryReader: both versions of main
\* pass options with MaxStreamCount 1, a library client any count or nil.
ReaderOpts(v) ==
    IF v = "api"
        THEN {[nil |-> TRUE, MaxStreamCount |-> 0]}
                 \cup {[nil |-> FALSE, MaxStreamCount |-> m] : m \in 1..MaxStreams}
    ELSE {[nil |-> FALSE, MaxStreamCount |-> MainMaxStreamCount]}

\* The caller invokes NewBigQueryReader.  The request is built from
\* opts.TableReadOptions and opts.MaxStreamCount, which dereferences a nil
\* opts; otherwise CreateReadSession is issued.
CallNewBigQueryReader ==
    /\ mpc = "newReader"
    /\ \E opts \in ReaderOpts(variant) :
          IF opts.nil
             THEN /\ mpc' = "panic"
                  /\ outcome' = "panic"
                  /\ flags' = [flags EXCEPT !.nilOpts = TRUE]
                  /\ UNCHANGED maxStreamCount
             ELSE /\ mpc' = "createSession"
                  /\ maxStreamCount' = opts.MaxStreamCount
                  /\ UNCHANGED <<outcome, flags>>
    /\ attempt' = 0
    /\ lastFail' = NoFail
    /\ UNCHANGED <<variant, envVars, readerVars, readVars, errSeen, sinkVars, auxVars>>

\* Where the caller continues once it holds a reader.
AfterNewReader(v) ==
    CASE v = "stage" -> "read"
      [] v = "loop" -> "newSnowflake"
      [] OTHER -> "client"

NewReaderCheck_NoStreamCheck(n, schema) ==
    IF schema = "empty" THEN "no schema"
    ELSE IF schema = "bad" THEN "parse"
    ELSE "ok"

\* The checks NewBigQueryReader makes on the session it was given.
NewReaderCheck(n, schema) ==
    IF n = 0 THEN "no streams"
    ELSE IF schema = "empty" THEN "no schema"
    ELSE IF schema = "bad" THEN "parse"
    ELSE "ok"

\* CreateReadSession fails: gax retries it or NewBigQueryReader returns the
\* error, which main answers with Fatalf.
CreateReadSessionFails ==
    /\ mpc = "createSession"
    /\ ~ctxDone
    /\ faults > 0
    /\ \E c \in Codes :
          /\ lastFail' = [call |-> "CreateReadSession", code |-> c]
          /\ IF OnCodes(CreateReadSessionRetryCodes, c)
                THEN /\ attempt' = attempt + 1
                     /\ UNCHANGED <<mpc, outcome, errSeen>>
                ELSE /\ mpc' = "fatal"
                     /\ outcome' = "fatal"
                     /\ errSeen' = errSeen \cup {"session"}
                     /\ UNCHANGED attempt
    /\ faults' = faults - 1
    /\ UNCHANGED <<variant, maxStreamCount, total, zeros, readerVars, readVars, flags,
                   sinkVars, auxVars>>

\* CreateReadSession succeeds with n streams and a schema; NewBigQueryReader
\* checks both and builds the reader.
CreateReadSessionReturns ==
    /\ mpc = "createSession"
    /\ ~ctxDone
    /\ \E n \in 0..maxStreamCount, schema \in {"ok", "empty", "bad"} :
       \E t \in [1..n -> 0..MaxRows] :
          LET chk == NewReaderCheck(n, schema) IN
          /\ total' = t
          /\ flags' = [flags EXCEPT !.zeroStreams = (n = 0)]
          /\ IF chk = "ok"
                THEN /\ hasReader' = TRUE
                     /\ streams' = [i \in 1..n |-> i]
                     /\ ipcReader' = SchemaReader
                     /\ mpc' = AfterNewReader(variant)
                     /\ UNCHANGED <<outcome, errSeen>>
                ELSE /\ mpc' = "fatal"
                     /\ outcome' = "fatal"
                     /\ errSeen' = errSeen \cup {"session"}
                     /\ UNCHANGED <<hasReader, streams, ipcReader>>
    /\ lastFail' = NoFail
    /\ UNCHANGED <<variant, attempt, maxStreamCount, faults, zeros, stream, offset,
                   readVars, sinkVars, auxVars>>

\* ---- BigQueryReader.Read -------------------------------------------------
\* (*ipc.Reader).Next: true when the reader still holds a record.
IpcNext(rd) == ~rd.err /\ rd.pending # <<>>

\* The stream readNextResponse opens.
StreamToOpen(ss) == ss[1]

NextOffset_CountsDecoded(off, b) == off + Len(Flatten(b.recs))

\* r.offset after a response has been received.
NextOffset(off, b) == off + b.rowCount

RecordBacking_SharesBuf == "r.buf"

\* The memory that backs a record of ipc.NewReader(r.buf, ...): r.buf is
\* handed over as an io.Reader, so the reader copies each message body out
\* of it into a buffer of the allocator r.mem.
RecordBacking == "r.mem"

\* processRecordBatch starts with r.buf.Reset(): true when a record Read
\* has returned is still unreleased at that point.
ResetWhileLive(b) == b.bytes # "none" /\ Len(deliveredRecs) > released

processRecordBatch_FirstOnly(rd, b) ==
    IF rd.nil THEN [ipc |-> rd, kind |-> "panic", rec |-> <<>>]
    ELSE IF b.bytes = "badreader" THEN [ipc |-> NilReader, kind |-> "err", rec |-> <<>>]
    ELSE IF b.bytes = "badbody"
        THEN [ipc |-> [nil |-> FALSE, pending |-> <<>>, err |-> TRUE],
              kind |-> "err", rec |-> <<>>]
    ELSE IF b.recs = <<>>
        THEN [ipc |-> [nil |-> FALSE, pending |-> <<>>, err |-> FALSE],
              kind |-> "none", rec |-> <<>>]
    ELSE [ipc |-> [nil |-> FALSE, pending |-> <<>>, err |-> FALSE],
          kind |-> "rec", rec |-> Head(b.recs)]

\* processRecordBatch: a new ipc.Reader is made over schema + batch and its
\* first record taken.  kind is "rec", "none" (nil, nil), "err" or "panic"
\* (r.r.Schema() on a nil reader).
processRecordBatch(rd, b) ==
    IF rd.nil THEN [ipc |-> rd, kind |-> "panic", rec |-> <<>>]
    ELSE IF b.bytes = "badreader" THEN [ipc |-> NilReader, kind |-> "err", rec |-> <<>>]
    ELSE IF b.bytes = "badbody"
        THEN [ipc |-> [nil |-> FALSE, pending |-> <<>>, err |-> TRUE],
              kind |-> "err", rec |-> <<>>]
    ELSE IF b.recs = <<>>
        THEN [ipc |-> [nil |-> FALSE, pending |-> <<>>, err |-> FALSE],
              kind |-> "none", rec |-> <<>>]
    ELSE [ipc |-> [nil |-> FALSE, pending |-> Tail(b.recs), err |-> FALSE],
          kind |-> "rec", rec |-> Head(b.recs)]

\* The top of Read's loop: a record left in the current ipc.Reader is
\* returned; otherwise readNextResponse opens the stream when none is open
\* (io.EOF when the session has no stream) or receives from the open one.
ReadTop ==
    /\ rdpc = "top"
    /\ IF ~ipcReader.nil /\ IpcNext(ipcReader)
          THEN /\ res' = RecResult(Head(ipcReader.pending))
               /\ deliveredRecs' = Append(deliveredRecs, Head(ipcReader.pending))
               /\ ipcReader' = [ipcReader EXCEPT !.pending = Tail(@)]
               /\ rdpc' = "idle"
               /\ UNCHANGED <<attempt, lastFail, flags>>
          ELSE IF stream = NoStream
          THEN IF Len(streams) = 0
                  THEN /\ res' = EOFResult
                       /\ rdpc' = "idle"
                       /\ flags' = [flags EXCEPT !.eofReturned = TRUE]
                       /\ UNCHANGED <<attempt, lastFail, deliveredRecs, ipcReader>>
                  ELSE /\ rdpc' = "open"
                       /\ attempt' = 0
                       /\ lastFail' = NoFail
                       /\ UNCHANGED <<res, deliveredRecs, ipcReader, flags>>
          ELSE /\ rdpc' = "recv"
               /\ UNCHANGED <<attempt, lastFail, res, deliveredRecs, ipcReader, flags>>
    /\ UNCHANGED <<variant, mpc, maxStreamCount, envVars, hasReader, streams, stream,
                   offset, servedRecs, errSeen, outcome, sinkVars, auxVars>>

\* ReadRows returns a stream that starts at the requested offset.
ReadRowsOpens ==
    /\ rdpc = "open"
    /\ ~ctxDone
    /\ stream' = [id |-> StreamToOpen(streams), pos |-> offset, err |-> "none"]
    /\ rdpc' = "recv"
    /\ lastFail' = NoFail
    /\ UNCHANGED <<variant, mpc, attempt, maxStreamCount, envVars, hasReader, streams,
                   offset, ipcReader, res, deliveredRecs, servedRecs, flags, errSeen,
                   outcome, sinkVars, auxVars>>

\* ReadRows fails: gax retries it or readNextResponse returns the error.
ReadRowsFails ==
    /\ rdpc = "open"
    /\ ~ctxDone
    /\ faults > 0
    /\ \E c \in Codes :
          /\ lastFail' = [call |-> "ReadRows", code |-> c]
          /\ IF OnCodes(ReadRowsRetryCodes, c)
                THEN /\ attempt' = attempt + 1
                     /\ UNCHANGED <<rdpc, res>>
                ELSE /\ rdpc' = "idle"
                     /\ res' = ErrResult("open", c)
                     /\ UNCHANGED attempt
    /\ faults' = faults - 1
    /\ UNCHANGED <<variant, mpc, maxStreamCount, total, zeros, readerVars,
                   deliveredRecs, servedRecs, flags, errSeen, outcome, sinkVars, auxVars>>

\* Recv on a stream that has already failed fails again with the same error
\* (r.stream is still the failed stream: only io.EOF resets it).
RecvBroken ==
    /\ rdpc = "recv"
    /\ stream.err # "none"
    /\ rdpc' = "idle"
    /\ res' = ErrResult("recv", stream.err)
    /\ UNCHANGED <<variant, mpc, attempt, maxStreamCount, envVars, readerVars,
                   deliveredRecs, servedRecs, lastFail, flags, errSeen, outcome,
                   sinkVars, auxVars>>

\* Recv fails with a transport error: the error is returned, r.stream and
\* r.offset stay as they are.
RecvFails ==
    /\ rdpc = "recv"
    /\ stream.err = "none"
    /\ ~ctxDone
    /\ faults > 0
    /\ \E c \in Codes :
          /\ stream' = [stream EXCEPT !.err = c]
          /\ res' = ErrResult("recv", c)
          /\ flags' = [flags EXCEPT !.interrupted = @ \/ (c \in RetryableTransport)]
    /\ rdpc' = "idle"
    /\ faults' = faults - 1
    /\ UNCHANGED <<variant, mpc, attempt, maxStreamCount, total, zeros, hasReader,
                   streams, offset, ipcReader, deliveredRecs, servedRecs, lastFail,
                   errSeen, outcome, sinkVars, auxVars>>

\* Recv reports the end of the stream: r.stream is dropped, io.EOF returned.
RecvEOF ==
    /\ rdpc = "recv"
    /\ stream.err = "none"
    /\ ~ctxDone
    /\ stream.pos >= total[stream.id]
    /\ stream' = NoStream
    /\ rdpc' = "idle"
    /\ res' = EOFResult
    /\ flags' = [flags EXCEPT !.eofReturned = TRUE]
    /\ UNCHANGED <<variant, mpc, attempt, maxStreamCount, envVars, hasReader, streams,
                   offset, ipcReader, deliveredRecs, servedRecs, lastFail, errSeen,
                   outcome, sinkVars, auxVars>>

\* The ways the service may cut the next rem rows into the records of one
\* response.
DataShapes(rem) ==
    {<<n>> : n \in 1..Min(rem, MaxBatchRows)}
        \cup (IF Min(rem, MaxBatchRows) >= 2 THEN {<<1, 1>>} ELSE {})

DataBatch(s, p, sh) ==
    [rowCount |-> IF Len(sh) = 1 THEN sh[1] ELSE sh[1] + sh[2],
     bytes |-> "ok",
     recs |-> IF Len(sh) = 1 THEN <<RowsFrom(s, p, sh[1])>>
              ELSE <<RowsFrom(s, p, sh[1]), RowsFrom(s, p + sh[1], sh[2])>>]

\* The responses the service may send next on stream s at row p: rows cut
\* into one or two records, a response without a batch, a batch that decodes
\* to no record, or a batch that does not decode.
Responses(s, p) ==
    {DataBatch(s, p, sh) : sh \in DataShapes(total[s] - p)}
        \cup (IF zeros > 0
                 THEN {[rowCount |-> 0, bytes |-> k, recs |-> <<>>] :
                          k \in {"none", "norecord"}}
                 ELSE {})
        \cup (IF faults > 0 /\ p < total[s]
                 THEN {[rowCount |-> 1, bytes |-> k, recs |-> <<>>] :
                          k \in {"badreader", "badbody"}}
                 ELSE {})

\* Recv returns a response: r.offset advances by its row count; an empty
\* batch sends Read round its loop, any other goes to processRecordBatch.
RecvResponse ==
    /\ rdpc = "recv"
    /\ stream.err = "none"
    /\ ~ctxDone
    /\ \E b \in Responses(stream.id, stream.pos) :
          LET pr == IF b.bytes = "none"
                       THEN [ipc |-> ipcReader, kind |-> "none", rec |-> <<>>]
                       ELSE processRecordBatch(ipcReader, b)
          IN
          /\ offset' = NextOffset(offset, b)
          /\ stream' = [stream EXCEPT !.pos = @ + b.rowCount]
          /\ ipcReader' = pr.ipc
          /\ servedRecs' = servedRecs \o b.recs
          /\ zeros' = IF b.rowCount = 0 THEN zeros - 1 ELSE zeros
          /\ faults' = IF b.bytes \in {"badreader", "badbody"} THEN faults - 1 ELSE faults
          /\ flags' = [flags EXCEPT !.decodeFailed = @ \/ (pr.kind = "err"),
                                    !.zeroServed = @ \/ (b.rowCount = 0),
                                    !.multiRec = @ \/ (Len(b.recs) > 1),
                                    !.rowsReceived = @ + b.rowCount,
                                    !.resetWhileLive = @ \/ ResetWhileLive(b),
                                    !.clobbered =
                                        @ \/ (ResetWhileLive(b) /\ RecordBacking = "r.buf")]
          /\ rdpc' = IF pr.kind = "none" THEN "top" ELSE "idle"
          /\ res' = CASE pr.kind = "rec" -> RecResult(pr.rec)
                      [] pr.kind = "err" -> ErrResult("decode", "none")
                      [] pr.kind = "panic" -> PanicResult
                      [] OTHER -> res
          /\ deliveredRecs' = IF pr.kind = "rec" THEN Append(deliveredRecs, pr.rec)
                              ELSE deliveredRecs
    /\ UNCHANGED <<variant, mpc, attempt, maxStreamCount, total, hasReader, streams,
                   lastFail, errSeen, outcome, sinkVars, auxVars>>

\* ---- the deadline of main's context --------------------------------------
\* The status code of a call whose context has expired.
CtxErr == "DeadlineExceeded"

\* The 30 minutes of context.WithTimeout pass while main is running.
DeadlineExpires ==
    /\ variant \in {"stage", "loop"}
    /\ mpc \notin {"start", "fatal", "panic", "done"}
    /\ ~ctxDone
    /\ ctxDone' = TRUE
    /\ UNCHANGED <<variant, mpc, attempt, maxStreamCount, envVars, readerVars, readVars,
                   lastFail, flags, errSeen, outcome, sinkVars, released, incomplete,
                   sfRes, px>>

\* CreateReadSession under the expired context: the call fails and gax's
\* pause before a retry returns the context's error, so the failure is
\* returned whatever its code.
CreateReadSessionExpired ==
    /\ mpc = "createSession"
    /\ ctxDone
    /\ lastFail' = [call |-> "CreateReadSession", code |-> CtxErr]
    /\ mpc' = "fatal"
    /\ outcome' = "fatal"
    /\ errSeen' = errSeen \cup {"session"}
    /\ UNCHANGED <<variant, attempt, maxStreamCount, envVars, readerVars, readVars,
                   flags, sinkVars, auxVars>>

\* ReadRows under the expired context (r.ctx is main's context).
ReadRowsExpired ==
    /\ rdpc = "open"
    /\ ctxDone
    /\ lastFail' = [call |-> "ReadRows", code |-> CtxErr]
    /\ rdpc' = "idle"
    /\ res' = ErrResult("open", CtxErr)
    /\ UNCHANGED <<variant, mpc, attempt, maxStreamCount, envVars, readerVars,
                   deliveredRecs, servedRecs, flags, errSeen, outcome, sinkVars,
                   auxVars>>

\* Recv on a stream whose context has expired.
RecvExpired ==
    /\ rdpc = "recv"
    /\ stream.err = "none"
    /\ ctxDone
    /\ stream' = [stream EXCEPT !.err = CtxErr]
    /\ res' = ErrResult("recv", CtxErr)
    /\ rdpc' = "idle"
    /\ UNCHANGED <<variant, mpc, attempt, maxStreamCount, envVars, hasReader, streams,
                   offset, ipcReader, deliveredRecs, servedRecs, lastFail, flags,
                   errSeen, outcome, sinkVars, auxVars>>

\* ---- the callers ---------------------------------------------------------
\* The caller calls Read.
CallRead ==
    /\ mpc \in {"read", "loop", "client"}
    /\ rdpc = "idle"
    /\ mpc' = "reading"
    /\ rdpc' = "top"
    /\ res' = NoResult
    /\ lastFail' = NoFail
    /\ UNCHANGED <<variant, attempt, maxStreamCount, envVars, readerVars, deliveredRecs,
                   servedRecs, flags, errSeen, outcome, sinkVars, auxVars>>

\* A library client takes what Read returned; a panic ends it.
ApiAfterRead ==
    /\ variant = "api"
    /\ mpc = "reading"
    /\ rdpc = "idle"
    /\ mpc' = IF res.kind = "panic" THEN "panic" ELSE "client"
    /\ outcome' = IF res.kind = "panic" THEN "panic" ELSE outcome
    /\ UNCHANGED <<variant, attempt, maxStreamCount, envVars, readerVars, readVars,
                   lastFail, flags, errSeen, sinkVars, auxVars>>

ReleasesByClose_Always(rd) == 1

\* The calls of r.r.Release() one call of Close makes: one when r.r is not
\* nil, none otherwise.
ReleasesByClose(rd) == IF rd.nil THEN 0 ELSE 1

\* r.r after Close.
ReaderAfterClose(rd) == NilReader

\* What Close returns.
CloseReturns(rd) == "nil"

\* BigQueryReader.Close: the ipc.Reader is released and r.r set to nil.
Close ==
    /\ variant = "api"
    /\ mpc = "client"
    /\ ipcReader' = ReaderAfterClose(ipcReader)
    /\ flags' = [flags EXCEPT
                    !.closed = TRUE,
                    !.closedAgain = @ \/ flags.closed,
                    !.readerReleased = @ \/ (ReleasesByClose(ipcReader) = 1),
                    !.doubleRelease =
                        @ \/ (flags.readerReleased /\ ReleasesByClose(ipcReader) = 1),
                    !.closeChanged =
                        @ \/ (flags.closed /\ (ReaderAfterClose(ipcReader) # ipcReader
                                                \/ ReleasesByClose(ipcReader) # 0)),
                    !.closeErr = @ \/ (CloseReturns(ipcReader) # "nil")]
    /\ UNCHANGED <<variant, mpc, attempt, maxStreamCount, envVars, hasReader, streams,
                   stream, offset, readVars, lastFail, errSeen, outcome, sinkVars, auxVars>>

\* ---- main, staged-load version (cmd/syncronicity.go, first main) --------
\* How main files the error Read returned: io.EOF is no failure, a
\* deadline-exceeded or unavailable transport error is a transient one.
ReadErrClass(r) ==
    IF r.kind = "eof" THEN {}
    ELSE IF r.cause \in {"open", "recv"} /\ r.code \in RetryableTransport
        THEN {"readTransient"}
    ELSE {"read"}

\* main after its single Read.  An error is logged and main goes on to
\* "defer record.Release()" with a nil record, which panics; the deferred
\* recover prints the panic and exits, after the deferred reader.Close().
StageAfterRead ==
    /\ variant = "stage"
    /\ mpc = "reading"
    /\ rdpc = "idle"
    /\ IF res.kind = "rec"
          THEN /\ mpc' = "stage"
               /\ UNCHANGED <<errSeen, outcome, ipcReader, flags>>
          ELSE /\ mpc' = "panic"
               /\ outcome' = "panic"
               /\ errSeen' = errSeen \cup (IF res.kind = "panic" THEN {} ELSE ReadErrClass(res))
               /\ ipcReader' = NilReader
               /\ flags' = [flags EXCEPT !.closed = TRUE]
    /\ UNCHANGED <<variant, attempt, maxStreamCount, envVars, hasReader, streams,
                   stream, offset, readVars, lastFail, sinkVars, auxVars>>

\* The file ArrowToParquetStage writes and the path it uploads.
ParquetFile == "arrow_record.parquet"
UploadPath == "/Users/thomasmcgeehan/syncronicity/syncronicity/cmd/arrow_record.parquet"

\* The stage main names, and the reference "@%s" the PUT command makes of it.
StageName == <<"s">>
StageRef(name) == <<"@">> \o name

\* The points where ArrowToParquetStage can fail, in program order.
StageOutcomes == {"createFail", "writerFail", "writeFail", "closeFail", "connFail",
                  "putFail", "ok"}

\* The outcomes that leave the serializer after os.Create has succeeded but
\* before the Parquet file is whole.
WriteFailures == {"writerFail", "writeFail", "closeFail"}

\* os.Create: a handle open for writing on an empty file.
OsCreate(path) == [path |-> path, closed |-> FALSE, flushed |-> FALSE]

WriterClose_NoSinkClose(h) == [h EXCEPT !.flushed = TRUE]

\* (*pqarrow.FileWriter).Close: the footer is written and the sink, the
\* *os.File the writer was built on, is closed.
WriterClose(h) == [h EXCEPT !.flushed = TRUE, !.closed = TRUE]

\* (*os.File).Close, deferred by the serializer.
FileClose(h) == [h EXCEPT !.closed = TRUE]

\* The file is still being written: not flushed, or its handle not closed.
StillOpen(h) == ~h.closed \/ ~h.flushed

\* The local files after a serializer call on path ended with out.
FilesAfterWrite(fl, path, out) ==
    IF out \in {"mkdirFail", "createFail"} THEN fl ELSE fl \cup {path}

\* os.Create truncates the file when one exists under the path.
Overwrites(fl, path, out) == out \notin {"mkdirFail", "createFail"} /\ path \in fl

\* The files that do not hold a whole Parquet file after that call.
IncompleteAfterWrite(inc, path, out) ==
    IF out \in {"mkdirFail", "createFail"} THEN inc
    ELSE IF out \in WriteFailures THEN inc \cup {path}
    ELSE inc \ {path}

\* A PUT command as the stage sees it: the local path and stage reference
\* of the command, whether the local file existed and whether it was open
\* for writing when the command was issued, and whether the deadline of
\* main's context had passed by then.
PutCmd(path, ref, exists, open, late) ==
    [path |-> path, stage |-> ref, exists |-> exists, open |-> open, late |-> late]

\* The result a snowflake function hands back, with the number of the call
\* and the stage it was called on.
CallResult(op, out, file) ==
    [seq |-> sfRes.seq + 1, op |-> op, cause |-> out, file |-> file,
     stagedBefore |-> staged]

\* ArrowToParquetStage: create the file in the working directory, write the
\* record main has read, close the writer, connect and PUT the file of the fixed absolute
\* path to the stage.  The two paths name one file exactly when main runs
\* in that directory (same).  main logs the error and goes on to the load.
ArrowToParquetStage ==
    /\ variant = "stage"
    /\ mpc = "stage"
    /\ \E out \in StageOutcomes, same \in BOOLEAN :
          LET written == IF same THEN UploadPath ELSE ParquetFile
              h == WriterClose(OsCreate(written))
              put == PutCmd(UploadPath, StageRef(StageName),
                            UploadPath \in FilesAfterWrite(files, written, out),
                            same /\ StillOpen(h), ctxDone)
          IN
          /\ out = "ok" => put.exists
          /\ files' = FilesAfterWrite(files, written, out)
          /\ incomplete' = IncompleteAfterWrite(incomplete, written, out)
          /\ puts' = IF out \in {"putFail", "ok"} THEN puts \cup {put} ELSE puts
          /\ staged' = IF out = "ok" THEN staged \cup {ParquetFile} ELSE staged
          /\ errSeen' = IF out = "ok" THEN errSeen ELSE errSeen \cup {"stage"}
          /\ flags' = [flags EXCEPT
                          !.lateCall = @ \/ (ctxDone /\ out \in {"putFail", "ok"}),
                          !.stagedRows = IF out = "ok" THEN @ \o res.rec ELSE @,
                          !.overwrote = @ \/ Overwrites(files, written, out)]
          /\ sfRes' = CallResult("stage", out, written)
    /\ mpc' = "load"
    /\ UNCHANGED <<variant, attempt, maxStreamCount, envVars, readerVars, readVars,
                   lastFail, outcome, loads, transferred, released, ctxDone, px>>

StagedAfterCopy_PurgeOnError(st, out) == IF out = "ok" THEN st ELSE {}

\* The stage after the COPY INTO statement: the statement names no PURGE
\* option and the loader issues no REMOVE, so every staged file stays.
StagedAfterCopy(st, out) == st

\* The points where the loader can fail.
LoadOutcomes == {"connFail", "copyFail", "ok"}

\* LoadArrowIntoSnowflake: connect and execute COPY INTO.  main logs its
\* error, then logs "Data transfer complete!" and returns; the deferred
\* record.Release() and reader.Close() run.
LoadArrowIntoSnowflake ==
    /\ variant = "stage"
    /\ mpc = "load"
    /\ \E out \in LoadOutcomes :
          /\ loads' = IF out = "connFail" THEN loads ELSE loads + 1
          /\ staged' = IF out = "connFail" THEN staged ELSE StagedAfterCopy(staged, out)
          /\ errSeen' = IF out = "ok" THEN errSeen ELSE errSeen \cup {"load"}
          /\ flags' = [flags EXCEPT !.closed = TRUE,
                                    !.lateCall = @ \/ (ctxDone /\ out # "connFail")]
          /\ sfRes' = CallResult("load", out, "none")
    /\ mpc' = "done"
    /\ outcome' = "complete"
    /\ ipcReader' = NilReader
    /\ released' = released + 1
    /\ UNCHANGED <<variant, attempt, maxStreamCount, envVars, hasReader, streams,
                   stream, offset, readVars, lastFail, files, puts,
                   transferred, ctxDone, incomplete, px>>

\* ---- main, streaming-loop version (cmd/syncronicity.go, second main) -----
\* NewSnowflakeClient: sql.Open, Fatalf on error.
NewSnowflakeClient ==
    /\ variant = "loop"
    /\ mpc = "newSnowflake"
    /\ \E ok \in BOOLEAN :
          /\ mpc' = IF ok THEN "loop" ELSE "fatal"
          /\ outcome' = IF ok THEN outcome ELSE "fatal"
          /\ errSeen' = IF ok THEN errSeen ELSE errSeen \cup {"client"}
    /\ UNCHANGED <<variant, attempt, maxStreamCount, envVars, readerVars, readVars,
                   lastFail, flags, sinkVars, auxVars>>

\* The loop after Read: "EOF" breaks out and main logs "Data transfer
\* complete!"; any other error is logged and the loop continues; a record
\* goes to SendArrowToSnowflake.
LoopAfterRead ==
    /\ variant = "loop"
    /\ mpc = "reading"
    /\ rdpc = "idle"
    /\ CASE res.kind = "rec" ->
              /\ mpc' = "send"
              /\ UNCHANGED <<errSeen, outcome, ipcReader, flags>>
         [] res.kind = "eof" ->
              /\ mpc' = "done"
              /\ outcome' = "complete"
              /\ ipcReader' = NilReader
              /\ flags' = [flags EXCEPT !.closed = TRUE]
              /\ UNCHANGED errSeen
         [] res.kind = "err" ->
              /\ mpc' = "loop"
              /\ errSeen' = errSeen \cup ReadErrClass(res)
              /\ UNCHANGED <<outcome, ipcReader, flags>>
         [] OTHER ->
              /\ mpc' = "panic"
              /\ outcome' = "panic"
              /\ ipcReader' = NilReader
              /\ flags' = [flags EXCEPT !.closed = TRUE]
              /\ UNCHANGED errSeen
    /\ UNCHANGED <<variant, attempt, maxStreamCount, envVars, hasReader, streams,
                   stream, offset, readVars, lastFail, sinkVars, auxVars>>

\* SendArrowToSnowflake: on error the loop logs and continues; on success
\* the rows are counted and the record released.  The statement runs under
\* main's context and fails once that has expired.
SendArrowToSnowflake ==
    /\ variant = "loop"
    /\ mpc = "send"
    /\ \E ok \in BOOLEAN :
          /\ ok => ~ctxDone
          /\ errSeen' = IF ok THEN errSeen ELSE errSeen \cup {"send"}
          /\ transferred' = IF ok THEN transferred + Len(res.rec) ELSE transferred
          /\ loads' = IF ok /\ loads = 0 THEN 1 ELSE loads
          /\ released' = IF ok THEN released + 1 ELSE released
    /\ mpc' = "loop"
    /\ UNCHANGED <<variant, attempt, maxStreamCount, envVars, readerVars, readVars,
                   lastFail, flags, outcome, files, puts, staged, ctxDone, incomplete,
                   sfRes, px>>

\* ---- strings ------------------------------------------------------------
\* A string is a sequence of characters; "@" is the stage marker and "s"
\* stands for any other character.
Chars == {"@", "s"}

\* strings.HasPrefix
HasPrefix(str, prefix) ==
    Len(str) >= Len(prefix) /\ SubSeq(str, 1, Len(prefix)) = prefix

\* strings.ReplaceAll for a non-empty old: the non-overlapping occurrences
\* of old, found from left to right, are replaced by new.
RECURSIVE ReplaceAll(_, _, _)
ReplaceAll(str, old, new) ==
    IF Len(str) < Len(old) THEN str
    ELSE IF SubSeq(str, 1, Len(old)) = old
        THEN new \o ReplaceAll(SubSeq(str, Len(old) + 1, Len(str)), old, new)
    ELSE <<Head(str)>> \o ReplaceAll(Tail(str), old, new)

\* The stage reference UploadParquetToStage puts into the PUT command.
NormalizeStagePath(stagePath) ==
    LET marked == IF ~HasPrefix(stagePath, <<"@">>) THEN <<"@">> \o stagePath
                  ELSE stagePath
    IN ReplaceAll(marked, <<"@", "@">>, <<"@">>)

\* ---- the snowflake Client (library client "sf") -------------------------
\* The files and stage references the client passes.
ClientFiles == {"a.parquet", "b.parquet"}
ClientStageRefs == {<<"s">>, <<"@", "@", "@", "s">>}

\* The points where WriteArrowRecordToParquet can fail, in program order.
WriteOutcomes == {"mkdirFail", "createFail", "writerFail", "writeFail", "closeFail",
                  "ok"}

\* The points where UploadParquetToStage can fail once the file was found.
UploadOutcomes == {"absFail", "connFail", "putFail", "ok"}

\* UploadParquetToStage starts with os.Stat: a missing file ends the call.
UploadOutcome(fl, path, out) == IF path \notin fl THEN "notFound" ELSE out

\* The PUT commands after an upload call: the command is issued when the
\* call gets as far as ExecuteUpdate.
PutsAfterUpload(pp, fl, path, ref, out, open) ==
    IF UploadOutcome(fl, path, out) \in {"putFail", "ok"}
        THEN pp \cup {PutCmd(path, NormalizeStagePath(ref), path \in fl, open, FALSE)}
    ELSE pp

\* The stage after an upload call.
StagedAfterUpload(st, fl, path, out) ==
    IF UploadOutcome(fl, path, out) = "ok" THEN st \cup {path} ELSE st

\* Client.WriteArrowRecordToParquet: create or overwrite outputFile, write
\* the record, close the writer; the deferred file.Close() runs on return.
WriteArrowRecordToParquet ==
    /\ variant = "sf"
    /\ mpc = "sf"
    /\ sfRes.seq < MaxCalls
    /\ \E f \in ClientFiles, out \in WriteOutcomes :
          /\ files' = FilesAfterWrite(files, f, out)
          /\ incomplete' = IncompleteAfterWrite(incomplete, f, out)
          /\ sfRes' = CallResult("write", out, f)
          /\ flags' = [flags EXCEPT !.overwrote = @ \/ Overwrites(files, f, out)]
    /\ UNCHANGED <<variant, mpc, attempt, maxStreamCount, envVars, readerVars, readVars,
                   lastFail, errSeen, outcome, puts, staged, loads, transferred,
                   released, ctxDone, px>>

\* Client.UploadParquetToStage: check the file, connect, PUT it to the
\* normalized stage reference.  No handle on the file is open: the
\* serializer closed its own before it returned.
UploadParquetToStage ==
    /\ variant = "sf"
    /\ mpc = "sf"
    /\ sfRes.seq < MaxCalls
    /\ \E f \in ClientFiles, ref \in ClientStageRefs, out \in UploadOutcomes :
          /\ puts' = PutsAfterUpload(puts, files, f, ref, out, FALSE)
          /\ staged' = StagedAfterUpload(staged, files, f, out)
          /\ sfRes' = CallResult("upload", UploadOutcome(files, f, out), f)
    /\ UNCHANGED <<variant, mpc, attempt, maxStreamCount, envVars, readerVars, readVars,
                   lastFail, flags, errSeen, outcome, files, loads, transferred,
                   released, ctxDone, incomplete, px>>

\* Client.ArrowToParquetStage: WriteArrowRecordToParquet, and when that
\* succeeded UploadParquetToStage of the same file.
ClientArrowToParquetStage ==
    /\ variant = "sf"
    /\ mpc = "sf"
    /\ sfRes.seq < MaxCalls
    /\ \E f \in ClientFiles, ref \in ClientStageRefs,
          wout \in WriteOutcomes, uout \in UploadOutcomes :
          LET fl == FilesAfterWrite(files, f, wout)
              h == FileClose(WriterClose(OsCreate(f)))
          IN
          /\ files' = fl
          /\ incomplete' = IncompleteAfterWrite(incomplete, f, wout)
          /\ IF wout = "ok"
                THEN /\ puts' = PutsAfterUpload(puts, fl, f, ref, uout, StillOpen(h))
                     /\ staged' = StagedAfterUpload(staged, fl, f, uout)
                     /\ sfRes' = CallResult("stage", UploadOutcome(fl, f, uout), f)
                ELSE /\ UNCHANGED <<puts, staged>>
                     /\ sfRes' = CallResult("stage", wout, f)
          /\ flags' = [flags EXCEPT !.overwrote = @ \/ Overwrites(files, f, wout)]
    /\ UNCHANGED <<variant, mpc, attempt, maxStreamCount, envVars, readerVars, readVars,
                   lastFail, errSeen, outcome, loads, transferred, released,
                   ctxDone, px>>

\* Client.LoadArrowIntoSnowflake: connect and execute COPY INTO.
ClientLoadArrowIntoSnowflake ==
    /\ variant = "sf"
    /\ mpc = "sf"
    /\ sfRes.seq < MaxCalls
    /\ \E out \in LoadOutcomes :
          /\ loads' = IF out = "connFail" THEN loads ELSE loads + 1
          /\ staged' = IF out = "connFail" THEN staged ELSE StagedAfterCopy(staged, out)
          /\ sfRes' = CallResult("load", out, "none")
    /\ UNCHANGED <<variant, mpc, attempt, maxStreamCount, envVars, readerVars, readVars,
                   lastFail, flags, errSeen, outcome, files, puts, transferred,
                   released, ctxDone, incomplete, px>>

Next ==
    \/ NewBigQueryReadClient
    \/ CallNewBigQueryReader
    \/ CreateReadSessionFails
    \/ CreateReadSessionReturns
    \/ CallRead
    \/ ReadTop
    \/ ReadRowsOpens
    \/ ReadRowsFails
    \/ RecvBroken
    \/ RecvFails
    \/ RecvEOF
    \/ RecvResponse
    \/ DeadlineExpires
    \/ CreateReadSessionExpired
    \/ ReadRowsExpired
    \/ RecvExpired
    \/ ApiAfterRead
    \/ Close
    \/ StageAfterRead
    \/ ArrowToParquetStage
    \/ LoadArrowIntoSnowflake
    \/ NewSnowflakeClient
    \/ LoopAfterRead
    \/ SendArrowToSnowflake
    \/ WriteArrowRecordToParquet
    \/ UploadParquetToStage
    \/ ClientArrowToParquetStage
    \/ ClientLoadArrowIntoSnowflake

Spec == Init /\ [][Next]_vars

\* The program keeps running: main is one thread and every call returns.
FairSpec == Spec /\ WF_vars(Next)

\* ---- stage path normalization on its own --------------------------------
\* Everything but the function under evaluation.
progVars == <<variant, mpc, attempt, maxStreamCount, envVars, readerVars, readVars,
              lastFail, flags, errSeen, outcome, sinkVars, released, ctxDone,
              incomplete, sfRes>>

\* The strings of at most n characters.
Strings(n) == UNION {[1..k -> Chars] : k \in 0..n}

\* A stage reference is given.
NormInit ==
    /\ Start("none")
    /\ px \in {[fn |-> "normalize", x |-> v, step |-> 0, once |-> <<>>, twice |-> <<>>] :
                 v \in Strings(MaxLen)}

\* UploadParquetToStage normalizes the reference it was given.
NormalizeOnce ==
    /\ px.fn = "normalize"
    /\ px.step = 0
    /\ px' = [px EXCEPT !.step = 1, !.once = NormalizeStagePath(px.x)]
    /\ UNCHANGED progVars

\* The normalized reference is passed to UploadParquetToStage again.
NormalizeAgain ==
    /\ px.fn = "normalize"
    /\ px.step = 1
    /\ px' = [px EXCEPT !.step = 2, !.twice = NormalizeStagePath(px.once)]
    /\ UNCHANGED progVars

NormNext ==
    \/ NormalizeOnce
    \/ NormalizeAgain

NormSpec == NormInit /\ [][NormNext]_vars

\* ---- the backoff of the retry policies on its own ------------------------
\* px.cur is the Backoff's bound for its next pause, px.env the bound the
\* last pause was drawn under, px.n the number of pauses made; pauseA and
\* pauseB are the n-th pauses of two retryers built from the same options,
\* prevA the pause before pauseA.
BackoffInit ==
    /\ Start("none")
    /\ px = [fn |-> "backoff", n |-> 0, cur |-> BackoffInitial, env |-> 0,
             pauseA |-> 0, pauseB |-> 0, prevA |-> 0]

NextCur_Uncapped(cur) == (cur * MultiplierNum) \div MultiplierDen

\* The bound after a pause: multiplied, and cut at Max.
NextCur(cur) == Min((cur * MultiplierNum) \div MultiplierDen, BackoffMax)

\* The pauses gax.Backoff.Pause may return under the bound cur: it returns
\* 1 + rand.Int63n(cur), of which the least, the middle and the greatest
\* value are taken.
Pauses(cur) == {1, (cur + 1) \div 2, cur}

\* Both retryers pause before their next attempt.
BackoffPause ==
    /\ px.fn = "backoff"
    /\ px.n < MaxPauses
    /\ \E a \in Pauses(px.cur), b \in Pauses(px.cur) :
          px' = [px EXCEPT !.n = @ + 1, !.env = px.cur, !.cur = NextCur(px.cur),
                           !.prevA = px.pauseA, !.pauseA = a, !.pauseB = b]
    /\ UNCHANGED progVars

\* A new call: gax.WithRetry builds new retryers from the options.
BackoffNewCall ==
    /\ px.fn = "backoff"
    /\ px.n > 0
    /\ px' = [fn |-> "backoff", n |-> 0, cur |-> BackoffInitial, env |-> 0,
              pauseA |-> 0, pauseB |-> 0, prevA |-> 0]
    /\ UNCHANGED progVars

BackoffNext ==
    \/ BackoffPause
    \/ BackoffNewCall

BackoffSpec == BackoffInit /\ [][BackoffNext]_vars

\* ---- the config singleton under concurrent callers (package config) ------
\* The goroutines that call into the package.
Goroutines == 1..MaxGoroutines

\* The entry points the callers use.
ConfigFuncs == {"GetConfig", "GetConfigValue", "LoadConfigStruct"}

\* GetConfigValue and LoadConfigStruct take mu.RLock for the whole call;
\* GetConfig takes nothing.
HoldsRLock(fn) == fn \in {"GetConfigValue", "LoadConfigStruct"}

\* px.instance tells how far the *viper.Viper behind `instance` has come:
\* "nil" before viper.New(), "new" once assigned, "read" after ReadInConfig,
\* "valid" after ValidateConfig.
\* What `instance == nil` in GetConfig can read.  The read takes no lock and
\* the write in LoadConfig is ordered only for goroutines that went through
\* once.Do: any other goroutine may still see nil after the assignment, or
\* see the pointer as soon as it is assigned.
SeenInstance(g) ==
    IF px.instance = "nil" THEN {"nil"}
    ELSE IF px.synced[g] THEN {px.instance}
    ELSE {"nil", px.instance}

\* No goroutine has called anything yet.
ConfigInit ==
    /\ Start("none")
    /\ px = [fn |-> "config", instance |-> "nil", once |-> "idle", inits |-> 0,
             readers |-> 0, exited |-> FALSE,
             pc |-> [g \in Goroutines |-> "idle"],
             call |-> [g \in Goroutines |-> "none"],
             synced |-> [g \in Goroutines |-> FALSE],
             got |-> [g \in Goroutines |-> "none"],
             early |-> FALSE]

\* The process is running and g is at the given point of its call.
ConfigAt(g, at) == px.fn = "config" /\ ~px.exited /\ px.pc[g] = at

\* A goroutine enters one of the entry points; the two that read values take
\* the read lock first (no writer exists before WatchConfig is set up, and
\* readers never exclude each other).
ConfigCall(g) ==
    /\ ConfigAt(g, "idle")
    /\ \E fn \in ConfigFuncs :
          px' = [px EXCEPT !.pc[g] = "check", !.call[g] = fn, !.got[g] = "none",
                           !.readers = IF HoldsRLock(fn) THEN @ + 1 ELSE @]
    /\ UNCHANGED progVars

\* GetConfig: if instance == nil { return LoadConfig() }; return instance, nil
GetConfig(g) ==
    /\ ConfigAt(g, "check")
    /\ \E seen \in SeenInstance(g) :
          px' = IF seen = "nil"
                THEN [px EXCEPT !.pc[g] = "load"]
                ELSE [px EXCEPT !.pc[g] = "ret", !.got[g] = seen,
                                !.early = @ \/ seen # "valid"]
    /\ UNCHANGED progVars

\* LoadConfig, once.Do: the first caller runs the function, a caller that
\* arrives while it runs waits, a caller that arrives afterwards returns the
\* instance at once.
LoadConfig(g) ==
    /\ ConfigAt(g, "load")
    /\ px.once # "running"
    /\ px' = IF px.once = "idle"
             THEN [px EXCEPT !.once = "running", !.pc[g] = "new"]
             ELSE [px EXCEPT !.pc[g] = "ret", !.synced[g] = TRUE,
                             !.got[g] = px.instance,
                             !.early = @ \/ px.instance # "valid"]
    /\ UNCHANGED progVars

\* instance = viper.New(), the first statement of the once function.
ViperNew(g) ==
    /\ ConfigAt(g, "new")
    /\ px' = [px EXCEPT !.instance = "new", !.inits = @ + 1, !.pc[g] = "readin"]
    /\ UNCHANGED progVars

\* instance.ReadInConfig(); zap's Fatal ends the process when it fails.
ReadInConfig(g) ==
    /\ ConfigAt(g, "readin")
    /\ \E ok \in BOOLEAN :
          px' = IF ok THEN [px EXCEPT !.instance = "read", !.pc[g] = "validate"]
                ELSE [px EXCEPT !.exited = TRUE]
    /\ UNCHANGED progVars

\* ValidateConfig(instance), then the watcher is set up, the once function
\* returns and LoadConfig returns the instance.
ValidateConfig(g) ==
    /\ ConfigAt(g, "validate")
    /\ \E ok \in BOOLEAN :
          px' = IF ok
                THEN [px EXCEPT !.instance = "valid", !.once = "done",
                                !.synced[g] = TRUE, !.pc[g] = "ret",
                                !.got[g] = "valid"]
                ELSE [px EXCEPT !.exited = TRUE]
    /\ UNCHANGED progVars

\* The caller uses what it obtained (IsSet/GetString, Unmarshal), drops the
\* read lock if it holds it, and returns.
ConfigReturn(g) ==
    /\ ConfigAt(g, "ret")
    /\ px' = [px EXCEPT !.pc[g] = "idle",
                        !.readers = IF HoldsRLock(px.call[g]) THEN @ - 1 ELSE @]
    /\ UNCHANGED progVars

ConfigNext ==
    \E g \in Goroutines :
        \/ ConfigCall(g)
        \/ GetConfig(g)
        \/ LoadConfig(g)
        \/ ViperNew(g)
        \/ ReadInConfig(g)
        \/ ValidateConfig(g)
        \/ ConfigReturn(g)

ConfigSpec == ConfigInit /\ [][ConfigNext]_vars

\* ---- the claims ----------------------------------------------------------
\* Nothing has gone wrong so far: no failure was injected, no batch was
\* corrupt, the reader has not been closed and the deadline has not passed.
NoTrouble == hasReader /\ faults = MaxFaults /\ ~flags.closed /\ ~ctxDone

\* Read has returned io.EOF and the caller holds that result.
ReturnedEOF == rdpc = "idle" /\ res.kind = "eof"

\* All rows of stream s, in order.
AllRows(s) == RowsFrom(s, 0, total[s])

\* C1 (as claimed): once a receive on the stream has been interrupted by a
\* retryable transport error, continuing to read delivers every row of the
\* stream exactly once; checked on the loop version of main, which calls
\* Read again after every error, for streams whose batches all decoded.
C1_Orig ==
    (variant = "loop" /\ flags.interrupted /\ ~flags.decodeFailed)
        ~> (hasReader /\ Flatten(deliveredRecs) = AllRows(streams[1]))

\* C2 (as claimed): a retryable transport error of Recv makes the reader
\* reopen the stream at r.offset; it is not returned to the caller of Read.
C2_Orig ==
    ~(rdpc = "idle" /\ res.kind = "err" /\ res.cause = "recv"
        /\ res.code \in RetryableTransport)

\* A failed attempt of the call was retried: the call is in flight again.
SessionRetried == mpc = "createSession" /\ attempt >= 1
ReadRowsRetried == rdpc = "open" /\ attempt >= 1

FatalErrs == errSeen \ {"readTransient"}

\* C5 (as claimed): once a stage has failed with such an error, main runs
\* no further stage and reads no further batch.
C5_Orig ==
    (variant \in {"stage", "loop"} /\ FatalErrs # {}) => mpc \in {"fatal", "panic", "done"}

\* C6 (as claimed): "Data transfer complete!" is reported only if no read,
\* staging or load step returned an error.
C6_Orig == outcome = "complete" => errSeen = {}

\* C7 (as claimed): after a decode failure no call of Read delivers a
\* record or receives a further response.
C7_Orig ==
    [][flags.decodeFailed =>
          (deliveredRecs' = deliveredRecs /\ rdpc' \notin {"open", "recv"})]_vars

\* C8: when the session has no stream, NewBigQueryReader returns no reader,
\* the run ends as fatal, and no file, PUT or COPY has been made.
C8_ZeroStreamsFatal ==
    flags.zeroStreams =>
        /\ ~hasReader
        /\ mpc = "fatal"
        /\ outcome = "fatal"
        /\ files = {} /\ puts = {} /\ staged = {} /\ loads = 0

C8_Witness == flags.zeroStreams /\ variant = "stage" /\ mpc = "fatal"

\* C9 (as claimed): once Read has returned io.EOF, no ReadRows call is
\* issued and every Read returns io.EOF.
C9_Orig ==
    flags.eofReturned => (rdpc # "open" /\ (rdpc = "idle" => res.kind = "eof"))

\* C10 (as claimed): when Read returns io.EOF, the rows of every stream of
\* the session have been delivered.
C10_Orig ==
    (NoTrouble /\ ReturnedEOF) =>
        \A i \in 1..Len(streams) :
            \A k \in 1..total[streams[i]] :
                \E j \in 1..Len(Flatten(deliveredRecs)) :
                    Flatten(deliveredRecs)[j] = <<streams[i], k - 1>>

\* C11 (as claimed): whenever main has finished with the records Read has
\* returned (it is back at the top of its loop, or has returned), it has
\* called Release once for each of them, and never more often than that.
C11_Orig ==
    variant \in {"stage", "loop"} =>
        /\ released <= Len(deliveredRecs)
        /\ mpc \in {"loop", "done"} => released = Len(deliveredRecs)

\* C12: when a bulk load has returned an error, the stage holds exactly the
\* files it held when the load was called.
C12_FailedLoadKeepsStage ==
    (sfRes.op = "load" /\ sfRes.cause # "ok") => staged = sfRes.stagedBefore

C12_Witness ==
    /\ sfRes.op = "load"
    /\ sfRes.cause = "copyFail"
    /\ staged = ClientFiles

\* C13 (as claimed): normalizing a normalized stage reference gives the
\* same reference.
C13_Orig == (px.fn = "normalize" /\ px.step = 2) => px.twice = px.once

\* The number of stage markers a reference starts with.
RECURSIVE LeadingMarkers(_)
LeadingMarkers(str) ==
    IF str # <<>> /\ Head(str) = "@" THEN 1 + LeadingMarkers(Tail(str)) ELSE 0

\* C14 (as claimed): the normalized reference starts with exactly one
\* stage marker, whatever number of markers the reference started with.
C14_Orig == (px.fn = "normalize" /\ px.step >= 1) => LeadingMarkers(px.once) = 1

\* C15 (as claimed): no PUT command is issued for a local file that does
\* not exist, and an upload call that found its file missing has returned
\* an error.
C15_Orig ==
    /\ \A p \in puts : p.exists
    /\ (sfRes.op = "upload" /\ sfRes.file \notin files) => sfRes.cause = "notFound"

C17_Orig ==
    (sfRes.op \in {"write", "stage"} /\ sfRes.cause \in WriteFailures)
        => sfRes.file \notin files

\* C18 (as claimed): once the deadline of main's context has passed, no
\* remote call is started.
C18_Orig == ~flags.lateCall

RECURSIVE Envelope(_)
Envelope(k) ==
    IF k <= 1 THEN BackoffInitial
    ELSE LET e == Envelope(k - 1) IN
         IF (e * MultiplierNum) \div MultiplierDen > BackoffMax THEN BackoffMax
         ELSE (e * MultiplierNum) \div MultiplierDen

C20_Orig == flags.nilOpts => (outcome # "panic" /\ mpc # "panic")

\* C21: however often a library client calls Close, the ipc.Reader is
\* released at most once, a call after the first changes nothing, no call
\* returns an error, and r.r is nil from the first call on.
C21_CloseIdempotent ==
    (variant = "api" /\ flags.closed) =>
        /\ ~flags.doubleRelease
        /\ ~flags.closeChanged
        /\ ~flags.closeErr
        /\ ipcReader.nil

C21_Witness ==
    /\ variant = "api"
    /\ flags.closedAgain
    /\ flags.readerReleased

\* C22: after every step r.offset is the sum of the row counts of the
\* responses Recv has returned so far; no step lowers it; and a Recv that
\* ends in an error or in io.EOF leaves it as it was.
C22_OffsetCountsRows ==
    [][/\ offset' = flags'.rowsReceived
       /\ offset' >= offset
       /\ (rdpc = "recv" /\ rdpc' = "idle"
              /\ (res'.kind = "eof" \/ (res'.kind = "err" /\ res'.cause = "recv")))
            => offset' = offset]_vars

C22_Witness ==
    /\ offset >= 1
    /\ flags.zeroServed
    /\ rdpc = "idle"
    /\ res.kind = "err"
    /\ res.cause = "recv"

\* C23 (as claimed): when the staged-load main has executed the load and no
\* step has returned an error, the rows of the staged files are the rows
\* of the source.
C23_Orig ==
    (variant = "stage" /\ loads >= 1 /\ errSeen = {})
        => flags.stagedRows = AllRows(streams[1])

\* C24 (as claimed): no serialize step creates its file under a name that
\* an earlier serialize step has written.
C24_Orig == ~flags.overwrote

\* C28 (as claimed): when ArrowToParquetStage has issued its PUT command,
\* the local path of the command is the path the record was written to.
C28_Orig ==
    (sfRes.op = "stage" /\ sfRes.cause \in {"putFail", "ok"})
        => \E p \in puts : p.path = sfRes.file

C26_Orig ==
    (variant = "loop" /\ rdpc = "idle" /\ res.kind = "err")
        ~> (mpc \in {"done", "fatal", "panic"})

\* C27 (as claimed): no call of Read dereferences a nil ipc.Reader.
C27_Orig == res.kind # "panic"

\* C29 (as claimed): with concurrent callers of GetConfig, GetConfigValue
\* and LoadConfigStruct the singleton is initialized exactly once, and no
\* caller obtains the instance before its file has been read and its
\* required keys validated.
C29_Orig == px.fn = "config" => (px.inits <= 1 /\ ~px.early)

====
